---- MODULE Spec2Model ----
(***************************************************************************)
(* A model of the invoice extraction pipeline of dalbo-aiapi:             *)
(*   data_extracter.py  extract_invoice_data, get_pdf_text,               *)
(*                      fetch_clients_from_crm                            *)
(*   data_formatter.py  process_chunk_data, merge_items_by_invoice,       *)
(*                      normalize_results and the coercion helpers        *)
(*   api/llm.py         call_llm                                          *)
(*                                                                         *)
(* Python strings are sequences of one-character strings.  JSON values    *)
(* are tagged records: Null, Str(s), Num(n), Flt(..), Lst(l), Obj(f),     *)
(* where f is a function from keys to JSON values (a Python dict).        *)
(***************************************************************************)
EXTENDS Integers, Sequences, FiniteSets, TLC

VARIABLES
    companyId,        \* the form field companyId of the request
    file,             \* the uploaded file: filename and what pdfminer reads
    api_key,          \* os.getenv("GOOGLE_API_KEY"): TRUE when set
    pc,               \* position of extract_invoice_data
    clients_list,     \* the list fetched from the CRM
    pages_text,       \* get_pdf_text's result
    i,                \* the chunk loop's index (0-based page offset)
    chunks,           \* result["raw_data"]["chunks"]
    totals,           \* result["raw_data"]["total_chunks"/"total_pages"]
    k,                \* normalize_results: index of the next chunk
    sent_items,       \* process_chunk_data's processed_items of each chunk,
                      \* as built by lines 130-168 (before line 171)
    chunk_items,      \* process_chunk_data's return value of each chunk
    normalized_data,  \* result["normalized_data"]
    error,            \* the exception that ended the run
    calls             \* the external calls made so far, in order

vars == <<companyId, file, api_key, pc, clients_list, pages_text, i, chunks,
          totals, k, sent_items, chunk_items, normalized_data, error, calls>>

----------------------------------------------------------------------------
(* Bounds *)

MaxPages == 21      \* pages of the uploaded document
MaxNameLen == 3     \* characters of a generated product or covering name
MaxProducts == 2    \* products of a generated record
MaxRecords == 3     \* records of a generated chunk
MaxPriceLen == 3    \* characters of a generated price or quantity string

(* Program constants *)

PAGES_PER_CHUNK == 10

----------------------------------------------------------------------------
(* JSON values *)

Null == [t |-> "null"]
Str(s) == [t |-> "str", s |-> s]
Num(n) == [t |-> "num", n |-> n]
Lst(l) == [t |-> "list", l |-> l]
Obj(f) == [t |-> "obj", f |-> f]
\* a Python float: finite (sign, digits m, e fractional digits), nan or inf
Flt(kind, neg, m, e) == [t |-> "float", kind |-> kind, neg |-> neg, m |-> m, e |-> e]

\* Python truthiness of a JSON value (bool(v))
Truthy(v) ==
    CASE v.t = "null"  -> FALSE
      [] v.t = "str"   -> v.s # <<>>
      [] v.t = "num"   -> v.n # 0
      [] v.t = "list"  -> v.l # <<>>
      [] v.t = "obj"   -> DOMAIN v.f # {}
      [] v.t = "float" -> ~(v.kind = "finite" /\ v.m = 0)

\* dict.get(key): None when the key is missing
Get(d, key) == IF key \in DOMAIN d.f THEN d.f[key] ELSE Null

\* d[key] = v on a dict
SetKey(d, key, v) ==
    Obj([x \in DOMAIN d.f \cup {key} |-> IF x = key THEN v ELSE d.f[x]])

----------------------------------------------------------------------------
(* Strings *)

DigitChars == <<"0", "1", "2", "3", "4", "5", "6", "7", "8", "9">>

\* str(n) for n >= 0
RECURSIVE Digits(_)
Digits(n) ==
    IF n < 10 THEN <<DigitChars[n + 1]>>
    ELSE Digits(n \div 10) \o <<DigitChars[(n % 10) + 1]>>

\* sep.join(strs)
RECURSIVE Join(_, _)
Join(sep, strs) ==
    IF strs = <<>> THEN <<>>
    ELSE IF Len(strs) = 1 THEN strs[1]
    ELSE strs[1] \o sep \o Join(sep, Tail(strs))

Min(a, b) == IF a < b THEN a ELSE b

\* str.lower() on the letters the model uses
LowerChar(c) ==
    CASE c = "A" -> "a"
      [] c = "B" -> "b"
      [] c = "C" -> "c"
      [] c = "D" -> "d"
      [] c = "N" -> "n"
      [] OTHER   -> c

Lower(s) == [j \in 1..Len(s) |-> LowerChar(s[j])]

\* a in b, for Python strings
IsSubstring(a, b) ==
    \E j \in 0..(Len(b) - Len(a)) : SubSeq(b, j + 1, j + Len(a)) = a

WhiteSpace == {" "}

\* str.strip()
RECURSIVE Strip(_)
Strip(s) ==
    IF s = <<>> THEN s
    ELSE IF Head(s) \in WhiteSpace THEN Strip(Tail(s))
    ELSE IF s[Len(s)] \in WhiteSpace THEN Strip(SubSeq(s, 1, Len(s) - 1))
    ELSE s

\* str.replace(old, new) for a one-character old; new is a string
RECURSIVE Replace(_, _, _)
Replace(s, old, new) ==
    IF s = <<>> THEN <<>>
    ELSE (IF Head(s) = old THEN new ELSE <<Head(s)>>) \o Replace(Tail(s), old, new)

IsDigit(c) == \E d \in 1..10 : DigitChars[d] = c

DigitVal(c) == (CHOOSE d \in 1..10 : DigitChars[d] = c) - 1

\* the number a string of digits denotes
RECURSIVE DigitsVal(_)
DigitsVal(s) ==
    IF s = <<>> THEN 0
    ELSE DigitsVal(SubSeq(s, 1, Len(s) - 1)) * 10 + DigitVal(s[Len(s)])

Ok(v) == [ok |-> TRUE, v |-> v]
Raise(exc) == [ok |-> FALSE, exc |-> exc]

\* the value of a result, None when it raised (except ...: return None)
OrNone(r) == IF r.ok THEN r.v ELSE Null

\* two results in sequence: the first exception wins, else the lists join
Cat(one, rest) ==
    IF ~one.ok THEN one ELSE IF ~rest.ok THEN rest ELSE Ok(one.v \o rest.v)

\* the digits and at most one "." of an unsigned number: the float it is
FloatNumber(body, neg) ==
    IF /\ SelectSeq(body, IsDigit) # <<>>
       /\ Cardinality({j \in 1..Len(body) : body[j] = "."}) <= 1
       /\ \A j \in 1..Len(body) : IsDigit(body[j]) \/ body[j] = "."
    THEN Ok(Flt("finite", neg, DigitsVal(SelectSeq(body, IsDigit)),
                IF \A j \in 1..Len(body) : body[j] # "." THEN 0
                ELSE Len(body) - (CHOOSE j \in 1..Len(body) : body[j] = ".")))
    ELSE Raise("ValueError")

\* float() of an unsigned body
FloatBody(body, neg) ==
    IF Lower(body) = <<"n", "a", "n">>
    THEN Ok(Flt("nan", neg, 0, 0))
    ELSE IF Lower(body) \in {<<"i", "n", "f">>,
                             <<"i", "n", "f", "i", "n", "i", "t", "y">>}
    THEN Ok(Flt("inf", neg, 0, 0))
    ELSE FloatNumber(body, neg)

\* float() of a stripped string
FloatStripped(s) ==
    IF s # <<>> /\ Head(s) \in {"+", "-"}
    THEN FloatBody(Tail(s), Head(s) = "-")
    ELSE FloatBody(s, FALSE)

\* Python's float(s): surrounding whitespace, an optional sign, then
\* "nan", "inf" or "infinity" in any case, or digits with at most one ".".
\* (Exponents and "_" separators are not modelled: the characters "e" and
\* "_" are outside the alphabet the inputs are drawn from.)
PyFloat(str) == FloatStripped(Strip(str))

IntBody(body, neg) ==
    IF body # <<>> /\ \A j \in 1..Len(body) : IsDigit(body[j])
    THEN Ok(Num(IF neg THEN 0 - DigitsVal(body) ELSE DigitsVal(body)))
    ELSE Raise("ValueError")

IntStripped(s) ==
    IF s # <<>> /\ Head(s) \in {"+", "-"}
    THEN IntBody(Tail(s), Head(s) = "-")
    ELSE IntBody(s, FALSE)

\* Python's int(s): surrounding whitespace, an optional sign, digits
PyInt(str) == IntStripped(Strip(str))

----------------------------------------------------------------------------
(* data_formatter.py: the coercion helpers *)

convert_price_to_float(price_str) ==
    IF ~Truthy(price_str) \/ price_str.t # "str" THEN Null
    ELSE OrNone(PyFloat(Replace(Replace(Strip(price_str.s), ".", <<>>),
                                ",", <<".">>)))

convert_quantity_to_int(quantity_str) ==
    IF ~Truthy(quantity_str) \/ quantity_str.t # "str" THEN Null
    ELSE OrNone(PyInt(Strip(quantity_str.s)))

\* any(standard_name.lower() in name.lower() for standard_name in names)
MatchesAny(name, standard_names) ==
    \E j \in 1..Len(standard_names) :
        IsSubstring(Lower(standard_names[j]), Lower(name))

\* normalize_product_name with the last matching name winning
RECURSIVE LastMatchingName(_, _)
LastMatchingName(product_name, standard_names) ==
    IF standard_names = <<>> THEN product_name
    ELSE IF IsSubstring(Lower(standard_names[Len(standard_names)]), Lower(product_name))
    THEN standard_names[Len(standard_names)]
    ELSE LastMatchingName(product_name,
                          SubSeq(standard_names, 1, Len(standard_names) - 1))

RECURSIVE normalize_product_name(_, _)
normalize_product_name(product_name, standard_names) ==
    IF standard_names = <<>> THEN product_name
    ELSE IF IsSubstring(Lower(Head(standard_names)), Lower(product_name))
    THEN Head(standard_names)
    ELSE normalize_product_name(product_name, Tail(standard_names))

\* lines 64-67 and 68-71: a price key, converted when present
CoercePrice(product, key) ==
    IF key \in DOMAIN product.f
    THEN SetKey(product, key, convert_price_to_float(product.f[key]))
    ELSE product

\* lines 74-77: the quantity key, converted when present
CoerceQuantity(product, key) ==
    IF key \in DOMAIN product.f
    THEN SetKey(product, key, convert_quantity_to_int(product.f[key]))
    ELSE product

normalize_product_data(product) ==
    CoerceQuantity(
        CoercePrice(CoercePrice(product, "full_price"), "discounted_price"),
        "quantity")

\* "key" not in x raises TypeError for None and numbers (not iterable)
NotIterable(x) == x.t \in {"null", "num", "float"}

\* lines 97-110: one covering of normalize_coverings
CoveringStep(covering, coverings_list) ==
    IF NotIterable(covering) THEN Raise("TypeError")
    ELSE IF "name" \notin DOMAIN covering.f \/ coverings_list = <<>> THEN Ok(<<>>)
    ELSE IF covering.f["name"].t # "str" THEN Raise("AttributeError")
    ELSE IF MatchesAny(covering.f["name"].s, coverings_list)
    THEN Ok(<<SetKey(covering, "name",
                Str(normalize_product_name(covering.f["name"].s, coverings_list)))>>)
    ELSE Ok(<<>>)

RECURSIVE normalize_coverings(_, _)
normalize_coverings(coverings, coverings_list) ==
    IF coverings = <<>> THEN Ok(<<>>)
    ELSE Cat(CoveringStep(Head(coverings), coverings_list),
             normalize_coverings(Tail(coverings), coverings_list))

\* line 159: the product with its coverings replaced
SetCoverings(normalized_product, coverings) ==
    IF ~coverings.ok THEN coverings
    ELSE Ok(<<SetKey(normalized_product, "coverings", Lst(coverings.v))>>)

\* lines 155-163: the coverings of a product that matched
HandleCoverings(normalized_product, coverings_list) ==
    IF /\ "coverings" \in DOMAIN normalized_product.f
       /\ normalized_product.f["coverings"].t = "list"
    THEN SetCoverings(normalized_product,
                      normalize_coverings(normalized_product.f["coverings"].l,
                                          coverings_list))
    ELSE Ok(<<normalized_product>>)

\* lines 142-163: one product of an item
ProductStep(product, products_list, coverings_list) ==
    IF NotIterable(product) THEN Raise("TypeError")
    ELSE IF "name" \notin DOMAIN product.f \/ products_list = <<>> THEN Ok(<<>>)
    ELSE IF product.f["name"].t # "str" THEN Raise("AttributeError")
    ELSE IF ~MatchesAny(product.f["name"].s, products_list) THEN Ok(<<>>)
    ELSE HandleCoverings(
             SetKey(normalize_product_data(product), "name",
                    Str(normalize_product_name(product.f["name"].s, products_list))),
             coverings_list)

\* lines 140-163: the products loop of one item
RECURSIVE NormalizeProducts(_, _, _)
NormalizeProducts(products, products_list, coverings_list) ==
    IF products = <<>> THEN Ok(<<>>)
    ELSE Cat(ProductStep(Head(products), products_list, coverings_list),
             NormalizeProducts(Tail(products), products_list, coverings_list))

\* KeepItem without the check of line 165
KeepItemAlways(item, normalized_products) ==
    IF ~normalized_products.ok THEN normalized_products
    ELSE Ok(<<SetKey(item, "products", Lst(normalized_products.v))>>)

\* lines 165-168: the item kept when it has a product left
KeepItem(item, normalized_products) ==
    IF ~normalized_products.ok THEN normalized_products
    ELSE IF normalized_products.v = <<>> THEN Ok(<<>>)
    ELSE Ok(<<SetKey(item, "products", Lst(normalized_products.v))>>)

\* lines 136-168: one item of chunk["data"]
ItemStep(item, products_list, coverings_list) ==
    IF NotIterable(item) THEN Raise("TypeError")
    ELSE IF "products" \notin DOMAIN item.f \/ item.f["products"].t # "list"
    THEN Ok(<<>>)
    ELSE KeepItem(item, NormalizeProducts(item.f["products"].l, products_list,
                                          coverings_list))

\* lines 135-168: the items loop
RECURSIVE FilterItems(_, _, _)
FilterItems(data, products_list, coverings_list) ==
    IF data = <<>> THEN Ok(<<>>)
    ELSE Cat(ItemStep(Head(data), products_list, coverings_list),
             FilterItems(Tail(data), products_list, coverings_list))

\* lines 130-168 of process_chunk_data: processed_items before the
\* client-normalization call
BuildItems(chunk, products_list, coverings_list) ==
    IF chunk.data.t # "list" THEN Ok(<<>>)
    ELSE FilterItems(chunk.data.l, products_list, coverings_list)

----------------------------------------------------------------------------
(* data_formatter.py: merge_items_by_invoice *)

\* index of the entry of invoice_dict stored under key, 0 when there is none
\* (invoice_dict is kept as the sequence of its values in insertion order;
\* an entry's key is its own invoice_number)
Lookup(invoice_dict, key) ==
    IF \A j \in 1..Len(invoice_dict) : Get(invoice_dict[j], "invoice_number") # key
    THEN 0
    ELSE CHOOSE j \in 1..Len(invoice_dict) :
             Get(invoice_dict[j], "invoice_number") = key

\* list(x) for the x that list.extend is given
Elements(x) ==
    CASE x.t = "list" -> Ok(x.l)
      [] x.t = "str"  -> Ok([j \in 1..Len(x.s) |-> Str(<<x.s[j]>>)])
      [] x.t = "obj" /\ DOMAIN x.f = {} -> Ok(<<>>)
      [] x.t \in {"null", "num", "float"} -> Raise("TypeError")

\* the elements of more that are not in have
NotIn(have, more) == SelectSeq(more, LAMBDA x : \A j \in 1..Len(have) : have[j] # x)

\* Extend with the products already in the entry left out
ExtendDeduplicating(invoice_dict, at, more) ==
    IF ~more.ok THEN more
    ELSE Ok([invoice_dict EXCEPT ![at] =
               SetKey(@, "products",
                      Lst(@.f["products"].l \o NotIn(@.f["products"].l, more.v)))])

\* line 220: the entry at index at extended with more
Extend(invoice_dict, at, more) ==
    IF ~more.ok THEN more
    ELSE Ok([invoice_dict EXCEPT ![at] =
               SetKey(@, "products", Lst(@.f["products"].l \o more.v))])

\* lines 218-223: the item stored, or merged into the entry at index at
Store(invoice_dict, item, at) ==
    IF at = 0 THEN Ok(Append(invoice_dict, item))
    ELSE IF "products" \notin DOMAIN invoice_dict[at].f THEN Raise("KeyError")
    ELSE IF invoice_dict[at].f["products"].t # "list" THEN Raise("AttributeError")
    ELSE IF "products" \notin DOMAIN item.f THEN Raise("KeyError")
    ELSE Extend(invoice_dict, at, Elements(item.f["products"]))

\* MergeStep without the check of line 215
MergeStepKeepingUnnumbered(invoice_dict, item) ==
    IF item.t # "obj" THEN Raise("AttributeError")
    ELSE Store(invoice_dict, item, Lookup(invoice_dict, Get(item, "invoice_number")))

\* lines 214-223: one item of the loop of merge_items_by_invoice
MergeStep(invoice_dict, item) ==
    IF item.t # "obj" THEN Raise("AttributeError")
    ELSE IF ~Truthy(Get(item, "invoice_number")) THEN Ok(invoice_dict)
    ELSE IF Get(item, "invoice_number").t \in {"list", "obj"} THEN Raise("TypeError")
    ELSE Store(invoice_dict, item, Lookup(invoice_dict, Get(item, "invoice_number")))

RECURSIVE MergeLoop(_, _)

\* the loop continued after one step
MergeNext(one, items) == IF ~one.ok THEN one ELSE MergeLoop(one.v, items)

MergeLoop(invoice_dict, items) ==
    IF items = <<>> THEN Ok(invoice_dict)
    ELSE MergeNext(MergeStep(invoice_dict, Head(items)), Tail(items))

merge_items_by_invoice(items) == MergeLoop(<<>>, items)

\* processed_items after the extends of normalize_results, line 251
RECURSIVE Flatten(_)
Flatten(lists) ==
    IF lists = <<>> THEN <<>> ELSE Head(lists) \o Flatten(Tail(lists))

----------------------------------------------------------------------------
(* Responses of the LLM provider *)

\* a response text: given literally, or the serialisation of a JSON value
Text(raw) == [t |-> "text", raw |-> raw]
Dumps(v) == [t |-> "dumps", v |-> v]

\* not initial_json: the empty string
IsEmptyText(r) == r.t = "text" /\ r.raw = ""

\* json.loads on the texts the model uses
JsonLoads(r) ==
    CASE r.t = "dumps" -> Ok(r.v)
      [] r.t = "text" /\ r.raw = "null" -> Ok(Null)
      [] r.t = "text" /\ r.raw = "{}"   -> Ok(Obj(<<>>))
      [] r.t = "text" /\ r.raw = "[]"   -> Ok(Lst(<<>>))
      [] r.t = "text" /\ r.raw = "7"    -> Ok(Num(7))
      [] r.t = "text" /\ r.raw \in {"", " ", "not json"} -> Raise("JSONDecodeError")

\* what the provider does with one request; no request is made ("none")
\* when call_llm finds no credential (lines 22-28)
ProviderOutcomes(key, texts) ==
    IF ~key THEN {[kind |-> "none"]}
    ELSE {[kind |-> "error"], [kind |-> "blocked"]}
             \cup {[kind |-> "text", text |-> r] : r \in texts}

Err(status, detail, pages, cause) ==
    [status |-> status, detail |-> detail, pages |-> pages, cause |-> cause]

NoError == Err(0, "", <<>>, "")

\* api/llm.py call_llm, given what the provider does with the request
call_llm(key, out) ==
    IF ~key
    THEN [ok |-> FALSE, err |-> Err(500, "GOOGLE_API_KEY not found", <<>>, "")]
    ELSE CASE out.kind = "text" -> [ok |-> TRUE, v |-> out.text]
           [] out.kind = "blocked" ->
                \* the HTTPException of line 43 is caught at line 50
                [ok |-> FALSE,
                 err |-> Err(500, "Error during Gemini API call", <<>>,
                             "Request was blocked")]
           [] out.kind = "error" ->
                [ok |-> FALSE,
                 err |-> Err(500, "Error during Gemini API call", <<>>,
                             "provider")]

----------------------------------------------------------------------------
(* Configuration and inputs *)

\* companies_info.py: the registry's one key
COMPANIES_INFO == {"86e676e3-4cc0-4725-b12c-358d3b4b3e43"}

\* the canonical names of the company (PRODUCTS_LIST, COVERINGS_LIST): two
\* names each, the second of which contains or is contained in the first
\* for some inputs, so that the order of the list decides
PRODUCTS_LIST == << <<"A", "b">>, <<"b">> >>
COVERINGS_LIST == << <<"C">>, <<"c", "d">> >>

\* what the CRM answers with status 200: clients_data["data"]
CrmClients ==
    Lst(<< Obj([name |-> Str(<<"x">>), id |-> Str(<<"7">>)]) >>)

CompanyIds == COMPANIES_INFO \cup {"", "unknown"}

PdfName == <<"f", ".", "p", "d", "f">>
TxtName == <<"f", ".", "t", "x", "t">>

\* page j of a document: "p<j>", or "p<j>" on odd and blank on even pages
NumberedPages(n) == [j \in 1..n |-> <<"p">> \o Digits(j)]
MixedPages(n) == [j \in 1..n |-> IF j % 2 = 0 THEN <<" ">> ELSE <<"p">> \o Digits(j)]

Files ==
    {[filename |-> PdfName, valid |-> TRUE, pages |-> NumberedPages(n)] :
        n \in 0..MaxPages}
    \cup {[filename |-> PdfName, valid |-> TRUE, pages |-> MixedPages(n)] :
        n \in 1..MaxPages}
    \cup {[filename |-> PdfName, valid |-> TRUE, pages |-> << <<" ">>, <<>> >>],
          [filename |-> PdfName, valid |-> FALSE, pages |-> <<>>],
          [filename |-> TxtName, valid |-> TRUE, pages |-> NumberedPages(1)],
          [filename |-> <<>>, valid |-> TRUE, pages |-> NumberedPages(1)]}

\* a product as the extraction prompt asks for it
Product(name, coverings) ==
    Obj([code |-> Str(<<"1">>), name |-> Str(name), quantity |-> Str(<<"2">>),
         full_price |-> Str(<<"1", ".", "2", "3", "4", ",", "5">>),
         discounted_price |-> Str(<<"0", ",", "5">>),
         coverings |-> Lst(coverings)])

Covering(name) == Obj([name |-> Str(name), code |-> Str(<<"3">>), count |-> Num(1)])

\* an invoice-group record
Record(client, invoice_number, products) ==
    Obj([name |-> Str(client), invoice_number |-> invoice_number,
         invoice_date |-> Str(<<"1", "/", "1">>), products |-> Lst(products)])

RecordNoNumber(client, products) ==
    Obj([name |-> Str(client), products |-> Lst(products)])

Inv1 == Str(<<"1">>)
Inv2 == Str(<<"2">>)

\* the lists an extraction call may answer with
ExtractionData ==
    { <<>>,
      \* two records of invoice 1 around a record with no surviving product
      << Record(<<"x">>, Inv1, << Product(<<"x", "a", "B">>, << Covering(<<"c", "d">>), Covering(<<"x">>) >>),
                                   Product(<<"z">>, <<>>) >>),
         Record(<<"y">>, Inv2, << Product(<<"z">>, <<>>) >>),
         Record(<<"y">>, Inv1, << Product(<<"b">>, <<>>) >>) >>,
      \* invoice 1 again, a record with an empty number and one with none
      << Record(<<"w">>, Inv1, << Product(<<"B">>, << Covering(<<"d">>) >>) >>),
         Record(<<"w">>, Str(<<>>), << Product(<<"b">>, <<>>) >>),
         RecordNoNumber(<<"w">>, << Product(<<"a", "b">>, <<>>) >>),
         Record(<<"v">>, Inv2, << Product(<<"b", "x">>, <<>>) >>) >>,
      \* a record without products, a record whose products is not a list
      << Obj([name |-> Str(<<"x">>), invoice_number |-> Inv1]),
         Obj([name |-> Str(<<"x">>), invoice_number |-> Inv1, products |-> Null]) >>,
      \* an item that is no record
      << Null >> }

ExtractionTexts ==
    {Text(""), Text("not json"), Text("null"), Text("{}"), Text("7")}
        \cup {Dumps(Lst(d)) : d \in ExtractionData}

\* rule 2 of the normalization prompt applied: the first record's client
\* name replaced by the directory's and its id added
WithClient(items) ==
    [items EXCEPT ![1] = SetKey(SetKey(@, "name", Str(<<"X">>)), "id", Str(<<"7">>))]

\* a product no canonical name matches, with a covering none matches
RogueProduct == Product(<<"z">>, << Covering(<<"x">>) >>)

\* the texts a client-normalization call may answer with, for the items sent
NormalizationTexts(items) ==
    {Text(""), Text("not json"), Text("null"), Text("{}"),
     Dumps(Lst(items)),
     Dumps(Lst(WithClient(items))),
     \* the records returned twice
     Dumps(Lst(items \o items)),
     \* a product added to the first record
     Dumps(Lst([items EXCEPT ![1] =
         SetKey(@, "products", Lst(Append(@.f["products"].l, RogueProduct)))])),
     \* a record added that has a number but no products
     Dumps(Lst(Append(items, Obj([invoice_number |-> Get(items[1], "invoice_number")]))))}

----------------------------------------------------------------------------
(* data_extracter.py: extract_invoice_data, one action per external call *)

Init ==
    /\ companyId \in CompanyIds
    /\ file \in Files
    /\ api_key \in BOOLEAN
    /\ pc = "start"
    /\ clients_list = Lst(<<>>)
    /\ pages_text = <<>>
    /\ i = 0
    /\ chunks = <<>>
    /\ totals = [total_chunks |-> 0, total_pages |-> 0]
    /\ k = 1
    /\ sent_items = <<>>
    /\ chunk_items = <<>>
    /\ normalized_data = <<>>
    /\ error = NoError
    /\ calls = <<>>

\* an external call, as logged: the collaborator, the purpose, the page
\* range and chunk text of the prompt, and what the collaborator answered
Call(to, purpose, pages, text, out) ==
    [to |-> to, purpose |-> purpose, pages |-> pages, text |-> text, out |-> out]

\* the run ends with the exception e
Fail(e) == pc' = "failed" /\ error' = e

\* s[a:b] for 0 <= a <= b
Slice(s, a, b) == SubSeq(s, a + 1, Min(b, Len(s)))

\* s.endswith(suffix)
EndsWith(s, suffix) ==
    Len(s) >= Len(suffix) /\ SubSeq(s, Len(s) - Len(suffix) + 1, Len(s)) = suffix

\* lines 125-138: the company check, then fetch_clients_from_crm (82-104)
FetchClients ==
    /\ pc = "start"
    /\ IF companyId = "" \/ companyId \notin COMPANIES_INFO
       THEN /\ Fail(Err(400, "A valid company ID is required", <<>>, ""))
            /\ UNCHANGED <<clients_list, calls>>
       ELSE \E status \in {200, 503} :
                 /\ calls' = Append(calls, Call("crm", "clients", <<>>, <<>>,
                                                [kind |-> "status", status |-> status]))
                 /\ IF status = 200
                    THEN /\ clients_list' = CrmClients
                         /\ pc' = "pdf"
                         /\ UNCHANGED error
                    ELSE /\ Fail(Err(status, "Failed to fetch clients data", <<>>, ""))
                         /\ UNCHANGED clients_list
    /\ UNCHANGED <<companyId, file, api_key, pages_text, i, chunks, totals, k,
                   sent_items, chunk_items, normalized_data>>

\* lines 141-152: get_pdf_text (50-79)
GetPdfText ==
    /\ pc = "pdf"
    /\ IF file.filename = <<>> \/ ~EndsWith(file.filename, <<".", "p", "d", "f">>)
       THEN /\ Fail(Err(400, "A valid PDF file is required", <<>>, ""))
            /\ UNCHANGED <<pages_text, calls>>
       ELSE /\ calls' = Append(calls, Call("pdf", "text", <<>>, <<>>,
                                           [kind |-> "pdf", valid |-> file.valid]))
            /\ IF ~file.valid
               THEN /\ Fail(Err(500, "Error during text extraction", <<>>, "pdfminer"))
                    /\ UNCHANGED pages_text
               ELSE IF \A j \in 1..Len(file.pages) : Strip(file.pages[j]) = <<>>
               THEN \* the HTTPException of line 72 is caught at line 76
                    /\ Fail(Err(500, "Error during text extraction", <<>>,
                                "Error extracting text"))
                    /\ UNCHANGED pages_text
               ELSE /\ pages_text' = file.pages
                    /\ pc' = "loop"
                    /\ UNCHANGED error
    /\ i' = 0
    /\ UNCHANGED <<companyId, file, api_key, clients_list, chunks, totals, k,
                   sent_items, chunk_items, normalized_data>>

\* ChunkRange with the end of the range not clamped to the last page
ChunkRangeUnclamped(at, pages) ==
    Digits(at + 1) \o <<"-">> \o Digits(at + PAGES_PER_CHUNK)

\* line 158: the label of the chunk that starts at offset i
ChunkRange(at, pages) ==
    Digits(at + 1) \o <<"-">> \o Digits(Min(at + PAGES_PER_CHUNK, Len(pages)))

\* lines 156-157: the text of the chunk that starts at offset i
ChunkText(at, pages) ==
    Join(<<"\n">>, Slice(pages, at, at + PAGES_PER_CHUNK))

\* lines 172-184: the parsed response stored, or the parse error raised
StoreChunk(current_chunk_range, chunk_result) ==
    IF ~chunk_result.ok
    THEN /\ Fail(Err(500, "Error parsing JSON response for pages",
                     current_chunk_range, chunk_result.exc))
         /\ UNCHANGED <<chunks, i>>
    ELSE /\ chunks' = Append(chunks, [pages |-> current_chunk_range,
                                       data |-> chunk_result.v])
         /\ i' = i + PAGES_PER_CHUNK
         /\ UNCHANGED <<pc, error>>

\* HandleExtraction with a failed call tried again: the loop stays on the
\* chunk
HandleExtractionRetrying(current_chunk_range, initial_json) ==
    IF ~initial_json.ok
    THEN UNCHANGED <<chunks, i, pc, error>>
    ELSE IF IsEmptyText(initial_json.v)
    THEN /\ Fail(Err(500, "No result (raw invoice info) from Gemini API for pages",
                     current_chunk_range, ""))
         /\ UNCHANGED <<chunks, i>>
    ELSE StoreChunk(current_chunk_range, JsonLoads(initial_json.v))

\* HandleExtraction with a chunk skipped, not failed, on an empty or
\* unparseable response
HandleExtractionSkipping(current_chunk_range, initial_json) ==
    IF ~initial_json.ok
    THEN Fail(initial_json.err) /\ UNCHANGED <<chunks, i>>
    ELSE IF IsEmptyText(initial_json.v) \/ ~JsonLoads(initial_json.v).ok
    THEN /\ i' = i + PAGES_PER_CHUNK
         /\ UNCHANGED <<chunks, pc, error>>
    ELSE StoreChunk(current_chunk_range, JsonLoads(initial_json.v))

\* lines 164-184: what the loop does with call_llm's outcome
HandleExtraction(current_chunk_range, initial_json) ==
    IF ~initial_json.ok
    THEN Fail(initial_json.err) /\ UNCHANGED <<chunks, i>>
    ELSE IF IsEmptyText(initial_json.v)
    THEN /\ Fail(Err(500, "No result (raw invoice info) from Gemini API for pages",
                     current_chunk_range, ""))
         /\ UNCHANGED <<chunks, i>>
    ELSE StoreChunk(current_chunk_range, JsonLoads(initial_json.v))

\* lines 155-184: one iteration of the chunk loop
ExtractChunk ==
    /\ pc = "loop"
    /\ i < Len(pages_text)
    /\ \E out \in ProviderOutcomes(api_key, ExtractionTexts) :
         /\ calls' = Append(calls, Call("llm", "extract", ChunkRange(i, pages_text),
                                        ChunkText(i, pages_text), out))
         /\ HandleExtraction(ChunkRange(i, pages_text), call_llm(api_key, out))
    /\ UNCHANGED <<companyId, file, api_key, clients_list, pages_text, totals, k,
                   sent_items, chunk_items, normalized_data>>

\* lines 186-192: after the loop
FinishExtraction ==
    /\ pc = "loop"
    /\ i >= Len(pages_text)
    /\ IF chunks = <<>>
       THEN /\ Fail(Err(500, "No valid results from any chunk processing", <<>>, ""))
            /\ UNCHANGED totals
       ELSE /\ totals' = [total_chunks |-> Len(chunks), total_pages |-> Len(pages_text)]
            /\ pc' = "normalize"
            /\ UNCHANGED error
    /\ k' = 1
    /\ UNCHANGED <<companyId, file, api_key, clients_list, pages_text, i, chunks,
                   sent_items, chunk_items, normalized_data, calls>>

\* line 251: processed_items.extend(...) with process_chunk_data's result
ExtendItems(built, extended) ==
    IF ~extended.ok
    THEN /\ Fail(Err(500, "Internal Server Error", <<>>, extended.exc))
         /\ UNCHANGED <<k, sent_items, chunk_items>>
    ELSE /\ sent_items' = Append(sent_items, built)
         /\ chunk_items' = Append(chunk_items, extended.v)
         /\ k' = k + 1
         /\ UNCHANGED <<pc, error>>

\* lines 191-198: json.loads of the response, inside the try
ParseNormalized(built, processed_items) ==
    IF ~processed_items.ok
    THEN /\ Fail(Err(500, "Error during client names normalization in chunk",
                     <<>>, processed_items.exc))
         /\ UNCHANGED <<k, sent_items, chunk_items>>
    ELSE ExtendItems(built, Elements(processed_items.v))

\* HandleNormalization with the records as built standing in for a
\* response that is missing or cannot be parsed
HandleNormalizationFallingBack(built, response) ==
    IF ~response.ok \/ ~JsonLoads(response.v).ok
    THEN ExtendItems(built, Ok(built))
    ELSE ParseNormalized(built, JsonLoads(response.v))

\* lines 191-198: call_llm's outcome, inside the try
HandleNormalization(built, response) ==
    IF ~response.ok
    THEN /\ Fail(Err(500, "Error during client names normalization in chunk",
                     <<>>, response.err.detail))
         /\ UNCHANGED <<k, sent_items, chunk_items>>
    ELSE ParseNormalized(built, JsonLoads(response.v))

\* lines 170-198: the client-normalization call, made when items are left
NormalizeClients(built) ==
    IF built = <<>>
    THEN /\ sent_items' = Append(sent_items, <<>>)
         /\ chunk_items' = Append(chunk_items, <<>>)
         /\ k' = k + 1
         /\ UNCHANGED <<pc, error, calls>>
    ELSE \E out \in ProviderOutcomes(api_key, NormalizationTexts(built)) :
              /\ calls' = Append(calls, Call("llm", "normalize", chunks[k].pages,
                                             <<>>, out))
              /\ HandleNormalization(built, call_llm(api_key, out))

\* lines 130-198: process_chunk_data after its filtering loop
ProcessBuilt(built) ==
    IF ~built.ok
    THEN /\ Fail(Err(500, "Internal Server Error", <<>>, built.exc))
         /\ UNCHANGED <<k, sent_items, chunk_items, calls>>
    ELSE NormalizeClients(built.v)

\* data_formatter.py lines 250-251: one iteration of normalize_results,
\* the whole of process_chunk_data (130-198) and the extend
ProcessChunk ==
    /\ pc = "normalize"
    /\ k <= Len(chunks)
    /\ ProcessBuilt(BuildItems(chunks[k], PRODUCTS_LIST, COVERINGS_LIST))
    /\ UNCHANGED <<companyId, file, api_key, clients_list, pages_text, i, chunks,
                   totals, normalized_data>>

\* lines 254-256 and data_extracter.py 195-199: the merged list returned
Return(final_result) ==
    IF ~final_result.ok
    THEN /\ Fail(Err(500, "Internal Server Error", <<>>, final_result.exc))
         /\ UNCHANGED normalized_data
    ELSE /\ normalized_data' = final_result.v
         /\ pc' = "done"
         /\ UNCHANGED error

\* data_formatter.py lines 254-256 and data_extracter.py lines 195-199
Merge ==
    /\ pc = "normalize"
    /\ k > Len(chunks)
    /\ Return(merge_items_by_invoice(Flatten(chunk_items)))
    /\ UNCHANGED <<companyId, file, api_key, clients_list, pages_text, i, chunks,
                   totals, k, sent_items, chunk_items, calls>>

Next ==
    \/ FetchClients
    \/ GetPdfText
    \/ ExtractChunk
    \/ FinishExtraction
    \/ ProcessChunk
    \/ Merge

Spec == Init /\ [][Next]_vars

----------------------------------------------------------------------------
(* process_chunk_data on generated chunks: the run taken up after the     *)
(* extraction of a one-page document, whose response was the chunk        *)

\* the strings of at most n characters of an alphabet
StringsUpTo(alphabet, n) == UNION {[1..m -> alphabet] : m \in 0..n}

ProductNames == StringsUpTo({"a", "A", "b", "B", "x"}, MaxNameLen)
CoveringNames == StringsUpTo({"c", "C", "d", "x"}, MaxNameLen)
PriceStrings == StringsUpTo({"0", "1", ".", ",", " ", "-", "a", "n"}, MaxPriceLen)

\* the products a generated record is made of
ProductChoices ==
    { Product(<<"x", "a", "B">>, << Covering(<<"x">>), Covering(<<"D", "c">>) >>),
      Product(<<"b">>, <<>>),
      Product(<<"a", "x">>, << Covering(<<"c">>) >>),
      Obj([code |-> Str(<<"1">>)]),
      Obj([name |-> Str(<<"b">>), coverings |-> Null]),
      Obj([name |-> Str(<<"b">>), coverings |-> Lst(<< Obj([code |-> Str(<<"3">>)]) >>)]),
      Obj([name |-> Null]),
      Null }

\* the records a generated chunk is made of
RecordChoices ==
    { Obj([name |-> Str(<<"x">>), invoice_number |-> Inv1]),
      Obj([name |-> Str(<<"x">>), invoice_number |-> Inv1, products |-> Null]),
      Record(<<"u">>, Inv1, <<>>),
      Record(<<"v">>, Inv2, << Product(<<"a">>, <<>>) >>),
      Record(<<"w">>, Inv1, << Product(<<"a", "b">>, <<>>) >>),
      Record(<<"y">>, Inv2, << Product(<<"x">>, <<>>), Product(<<"B">>, <<>>) >>),
      Null }

\* the values a price or quantity key may hold
FieldValues == {Str(s) : s \in PriceStrings} \cup {Null, Num(5), Lst(<<>>)}

\* a product named "b" with one coerced key set to v
WithField(key, v) == SetKey(Obj([name |-> Str(<<"b">>)]), key, v)

GeneratedData ==
    \* product names
    {<< Record(<<"x">>, Inv1, << Product(n, <<>>) >>) >> : n \in ProductNames}
    \* covering names
    \cup {<< Record(<<"x">>, Inv1, << Product(<<"b">>, << Covering(n) >>) >>) >> :
             n \in CoveringNames}
    \* lists of products
    \cup {<< Record(<<"x">>, Inv1, ps) >> :
             ps \in UNION {[1..m -> ProductChoices] : m \in 0..MaxProducts}}
    \* lists of records
    \cup UNION {[1..m -> RecordChoices] : m \in 0..MaxRecords}
    \* prices and quantities
    \cup {<< Record(<<"x">>, Inv1, << WithField(key, v) >>) >> :
             key \in {"full_price", "discounted_price", "quantity"},
             v \in FieldValues}

InitChunk ==
    /\ companyId \in COMPANIES_INFO
    /\ file = [filename |-> PdfName, valid |-> TRUE, pages |-> NumberedPages(1)]
    /\ api_key = TRUE
    /\ pc = "normalize"
    /\ clients_list = CrmClients
    /\ pages_text = file.pages
    /\ i = PAGES_PER_CHUNK
    /\ \E d \in GeneratedData :
         /\ chunks = << [pages |-> ChunkRange(0, file.pages), data |-> Lst(d)] >>
         /\ calls = << Call("crm", "clients", <<>>, <<>>,
                            [kind |-> "status", status |-> 200]),
                       Call("pdf", "text", <<>>, <<>>,
                            [kind |-> "pdf", valid |-> TRUE]),
                       Call("llm", "extract", ChunkRange(0, file.pages),
                            ChunkText(0, file.pages),
                            [kind |-> "text", text |-> Dumps(Lst(d))]) >>
    /\ totals = [total_chunks |-> 1, total_pages |-> 1]
    /\ k = 1
    /\ sent_items = <<>>
    /\ chunk_items = <<>>
    /\ normalized_data = <<>>
    /\ error = NoError

NextChunk ==
    \/ ProcessChunk
    \/ Merge

SpecChunk == InitChunk /\ [][NextChunk]_vars

----------------------------------------------------------------------------
(* Properties *)

Ceil(n, c) == (n + c - 1) \div c

IsExtract(c) == c.purpose = "extract"
ExtractCalls == SelectSeq(calls, IsExtract)

\* the bounds a label "start-end" names
DashAt(label) == CHOOSE j \in 1..Len(label) : label[j] = "-"
RangeStart(label) == DigitsVal(SubSeq(label, 1, DashAt(label) - 1))
RangeEnd(label) == DigitsVal(SubSeq(label, DashAt(label) + 1, Len(label)))

\* the extraction call j is for pages (j-1)*C+1 .. min(j*C, N): its label
\* says so and its text is those pages joined by newlines
ChunkIsRange(call, j) ==
    /\ call.pages = Digits((j - 1) * PAGES_PER_CHUNK + 1) \o <<"-">>
                      \o Digits(Min(j * PAGES_PER_CHUNK, Len(pages_text)))
    /\ RangeStart(call.pages) = (j - 1) * PAGES_PER_CHUNK + 1
    /\ RangeEnd(call.pages) = Min(j * PAGES_PER_CHUNK, Len(pages_text))
    /\ RangeStart(call.pages) <= RangeEnd(call.pages)
    /\ call.text = Join(<<"\n">>, SubSeq(pages_text, RangeStart(call.pages),
                                         RangeEnd(call.pages)))

\* C1: the chunks extract_invoice_data forms are, in order, the page
\* ranges (j-1)*10+1 .. min(j*10, N), each labelled "start-end" with these
\* bounds and holding the newline-join of exactly these pages; the ranges
\* are contiguous and none is empty; once the loop has run to its end there
\* are ceil(N/10) chunks and every page is in exactly one of them.
C1_Chunking ==
    /\ \A j \in 1..Len(ExtractCalls) :
         /\ ChunkIsRange(ExtractCalls[j], j)
         /\ j > 1 => RangeStart(ExtractCalls[j].pages)
                        = RangeEnd(ExtractCalls[j - 1].pages) + 1
    /\ Len(ExtractCalls) <= Ceil(Len(pages_text), PAGES_PER_CHUNK)
    /\ pc \in {"normalize", "done"} =>
         /\ Len(chunks) = Ceil(Len(pages_text), PAGES_PER_CHUNK)
         /\ Len(ExtractCalls) = Len(chunks)
         /\ totals.total_chunks = Len(chunks)
         /\ \A j \in 1..Len(chunks) : chunks[j].pages = ExtractCalls[j].pages
         /\ \A q \in 1..Len(pages_text) :
              Cardinality({j \in 1..Len(chunks) :
                              /\ RangeStart(chunks[j].pages) <= q
                              /\ q <= RangeEnd(chunks[j].pages)}) = 1

\* a run of 15 pages returned a document from the chunks "1-10" and "11-15"
C1_Witness ==
    /\ pc = "done"
    /\ Len(pages_text) = 15
    /\ Len(chunks) = 2
    /\ chunks[1].pages = <<"1", "-", "1", "0">>
    /\ chunks[2].pages = <<"1", "1", "-", "1", "5">>

\* the text an extraction call got is empty / is not parseable JSON
GotEmpty(c) == c.out.kind = "text" /\ IsEmptyText(c.out.text)
GotUnparseable(c) ==
    c.out.kind = "text" /\ ~IsEmptyText(c.out.text) /\ ~JsonLoads(c.out.text).ok

\* C2: an extraction call that returned the empty string, or a text that
\* is not parseable JSON, is the last call of the run, and the run has
\* failed with an error naming the call's page range: "No result" for the
\* empty string, "Error parsing JSON response" otherwise; no document is
\* returned.
C2_ExtractionFailureIsFatal ==
    \A j \in 1..Len(calls) :
        (calls[j].purpose = "extract" /\ (GotEmpty(calls[j]) \/ GotUnparseable(calls[j])))
        => /\ j = Len(calls)
           /\ pc = "failed"
           /\ normalized_data = <<>>
           /\ error.status = 500
           /\ error.pages = calls[j].pages
           /\ GotEmpty(calls[j]) =>
                error.detail = "No result (raw invoice info) from Gemini API for pages"
           /\ GotUnparseable(calls[j]) =>
                error.detail = "Error parsing JSON response for pages"

\* the second chunk's response was unparseable after the first was stored
C2_Witness ==
    /\ pc = "failed"
    /\ Len(chunks) = 1
    /\ chunks[1].data.t = "list" /\ chunks[1].data.l # <<>>
    /\ Len(calls) = 4
    /\ GotUnparseable(calls[4])
    /\ error.pages = <<"1", "1", "-", "1", "5">>

\* the per-chunk normalized records, in chunk order then record order
AllRecords == Flatten(chunk_items)

NumberOf(r) == Get(r, "invoice_number")

\* the non-empty invoice numbers of the normalized records
NumbersPresent ==
    {NumberOf(AllRecords[j]) :
        j \in {x \in 1..Len(AllRecords) : Truthy(NumberOf(AllRecords[x]))}}

\* C3: in a returned document no two entries share an invoice_number and
\* the invoice numbers of its entries are exactly the non-empty invoice
\* numbers of the per-chunk normalized records.
C3_UniqueInvoiceNumbers ==
    pc = "done" =>
        /\ \A a, b \in 1..Len(normalized_data) :
             a # b => NumberOf(normalized_data[a]) # NumberOf(normalized_data[b])
        /\ {NumberOf(normalized_data[a]) : a \in 1..Len(normalized_data)}
             = NumbersPresent
        /\ Len(normalized_data) = Cardinality(NumbersPresent)

\* a document of two entries from records among which some share a number,
\* one has an empty number and one has none
C3_Witness ==
    /\ pc = "done"
    /\ Len(normalized_data) = 2
    /\ Len(AllRecords) > 2
    /\ \E j \in 1..Len(AllRecords) : NumberOf(AllRecords[j]) = Str(<<>>)
    /\ \E j \in 1..Len(AllRecords) : "invoice_number" \notin DOMAIN AllRecords[j].f

\* the records that carry number n, in order
RecordsOf(n) == SelectSeq(AllRecords, LAMBDA r : NumberOf(r) = n)

\* the products lists of records, one after the other
RECURSIVE ConcatProducts(_)
ConcatProducts(recs) ==
    IF recs = <<>> THEN <<>>
    ELSE Head(recs).f["products"].l \o ConcatProducts(Tail(recs))

RECURSIVE SumProducts(_)
SumProducts(recs) ==
    IF recs = <<>> THEN 0
    ELSE Len(Head(recs).f["products"].l) + SumProducts(Tail(recs))

\* entry e is the first of recs with the products of all of recs
MergedFrom(e, recs) ==
    /\ recs # <<>>
    /\ DOMAIN e.f = DOMAIN recs[1].f
    /\ \A key \in DOMAIN e.f \ {"products"} : e.f[key] = recs[1].f[key]
    /\ IF Len(recs) = 1 THEN e = recs[1]
       ELSE /\ e.f["products"].l = ConcatProducts(recs)
            /\ Len(e.f["products"].l) = SumProducts(recs)

\* C4: every entry of a returned document carries the non-product fields
\* of the first record with its invoice number and, as products, the
\* products of all records with that number, concatenated in order.
C4_FirstSeenAndConcatenation ==
    pc = "done" =>
        \A a \in 1..Len(normalized_data) :
            MergedFrom(normalized_data[a], RecordsOf(NumberOf(normalized_data[a])))

\* an entry merged from three or more records of two chunks, the later
\* records of another client than the first
C4_Witness ==
    /\ pc = "done"
    /\ Len(chunk_items) = 2
    /\ \E a \in 1..Len(normalized_data) :
         /\ Len(RecordsOf(NumberOf(normalized_data[a]))) >= 3
         /\ \E j \in 1..Len(chunk_items[1]) :
              NumberOf(chunk_items[1][j]) = NumberOf(normalized_data[a])
         /\ \E j \in 1..Len(chunk_items[2]) :
              /\ NumberOf(chunk_items[2][j]) = NumberOf(normalized_data[a])
              /\ chunk_items[2][j].f["name"] # normalized_data[a].f["name"]

\* name contains, case-insensitively, the canonical name
Contains(canonical, name) == IsSubstring(Lower(canonical), Lower(name))

\* x has a name that contains some canonical name of the list
SurvivesIn(x, list) ==
    /\ x.t = "obj"
    /\ "name" \in DOMAIN x.f
    /\ x.f["name"].t = "str"
    /\ \E j \in 1..Len(list) : Contains(list[j], x.f["name"].s)

SurvivingProduct(x) == SurvivesIn(x, PRODUCTS_LIST)
SurvivingCovering(x) == SurvivesIn(x, COVERINGS_LIST)

\* the first name of the list, in list order, that name contains
FirstCanonical(name, list) ==
    list[CHOOSE j \in 1..Len(list) :
            /\ Contains(list[j], name)
            /\ \A h \in 1..(j - 1) : ~Contains(list[h], name)]

\* x is a record with a name
NamedProduct(x) == x.t = "obj" /\ "name" \in DOMAIN x.f

\* the record has a products list of which a product survives
Retained(r) ==
    /\ r.t = "obj"
    /\ "products" \in DOMAIN r.f
    /\ r.f["products"].t = "list"
    /\ \E j \in 1..Len(r.f["products"].l) : SurvivingProduct(r.f["products"].l[j])

\* x but for its name
SameButName(x, y) ==
    /\ DOMAIN x.f = DOMAIN y.f
    /\ \A key \in DOMAIN x.f \ {"name"} : x.f[key] = y.f[key]

\* the coverings list built is the surviving coverings of the raw list,
\* in order, each renamed to the first canonical name it contains
CoveringsFiltered(built, raw) ==
    /\ Len(built) = Len(SelectSeq(raw, SurvivingCovering))
    /\ \A h \in 1..Len(built) :
         /\ built[h].f["name"] =
              Str(FirstCanonical(SelectSeq(raw, SurvivingCovering)[h].f["name"].s,
                                 COVERINGS_LIST))
         /\ SameButName(built[h], SelectSeq(raw, SurvivingCovering)[h])
         /\ SurvivingCovering(built[h])

\* the product built is the raw product renamed to the first canonical
\* name it contains, with its coverings filtered
ProductFiltered(built, raw) ==
    /\ built.f["name"] = Str(FirstCanonical(raw.f["name"].s, PRODUCTS_LIST))
    /\ DOMAIN built.f = DOMAIN raw.f
    /\ IF "coverings" \in DOMAIN raw.f /\ raw.f["coverings"].t = "list"
       THEN /\ built.f["coverings"].t = "list"
            /\ CoveringsFiltered(built.f["coverings"].l, raw.f["coverings"].l)
       ELSE Get(built, "coverings") = Get(raw, "coverings")

\* the products list built is the surviving products of the raw list
ProductsFiltered(built, raw) ==
    /\ Len(built) = Len(SelectSeq(raw, SurvivingProduct))
    /\ \A h \in 1..Len(built) :
         ProductFiltered(built[h], SelectSeq(raw, SurvivingProduct)[h])

\* the list a chunk's data holds, empty when it is no list
DataOf(chunk) == IF chunk.data.t = "list" THEN chunk.data.l ELSE <<>>

\* C5: in the records process_chunk_data builds before the
\* client-normalization call, the products of a record are exactly the raw
\* products whose name contains, case-insensitively, a canonical product
\* name, in order, each renamed to the first canonical name in list order
\* that it contains; their coverings are filtered and renamed by the same
\* rule against the coverings list.
C5_ProductsAndCoveringsFiltered ==
    \A c \in 1..Len(sent_items) :
        /\ Len(sent_items[c]) = Len(SelectSeq(DataOf(chunks[c]), Retained))
        /\ \A j \in 1..Len(sent_items[c]) :
             ProductsFiltered(sent_items[c][j].f["products"].l,
                              SelectSeq(DataOf(chunks[c]), Retained)[j].f["products"].l)

\* a product whose name contains both canonical names was renamed to the
\* first, one of its coverings renamed and the other dropped, and the
\* second product of the record dropped
C5_Witness ==
    /\ Len(sent_items) = 1
    /\ Len(sent_items[1]) = 1
    /\ Len(DataOf(chunks[1])) >= 1
    /\ Retained(chunks[1].data.l[1])
    /\ Len(chunks[1].data.l[1].f["products"].l) = 2
    /\ \A j \in 1..2 : NamedProduct(chunks[1].data.l[1].f["products"].l[j])
    /\ chunks[1].data.l[1].f["products"].l[1].f["name"] = Str(<<"x", "a", "B">>)
    /\ chunks[1].data.l[1].f["products"].l[2].f["name"] = Str(<<"a", "x">>)
    /\ Len(sent_items[1][1].f["products"].l) = 1
    /\ sent_items[1][1].f["products"].l[1].f["name"] = Str(<<"A", "b">>)
    /\ "coverings" \in DOMAIN sent_items[1][1].f["products"].l[1].f
    /\ sent_items[1][1].f["products"].l[1].f["coverings"].t = "list"
    /\ Len(sent_items[1][1].f["products"].l[1].f["coverings"].l) = 1
    /\ sent_items[1][1].f["products"].l[1].f["coverings"].l[1].f["name"] = Str(<<"C">>)

\* nothing in the list makes the filtering loop raise: the items are
\* records, the products of a products list are records whose name, if
\* any, is a string, and so are the coverings of a coverings list
NamedOrNameless(x) == x.t = "obj" /\ ("name" \in DOMAIN x.f => x.f["name"].t = "str")

WellFormedProduct(x) ==
    /\ NamedOrNameless(x)
    /\ ("coverings" \in DOMAIN x.f /\ x.f["coverings"].t = "list") =>
          \A h \in 1..Len(x.f["coverings"].l) : NamedOrNameless(x.f["coverings"].l[h])

RecordsOnly(data) ==
    /\ data.t = "list"
    /\ \A j \in 1..Len(data.l) :
         /\ data.l[j].t = "obj"
         /\ ("products" \in DOMAIN data.l[j].f /\ data.l[j].f["products"].t = "list") =>
               \A h \in 1..Len(data.l[j].f["products"].l) :
                   WellFormedProduct(data.l[j].f["products"].l[h])

\* the records built are the records of raw, in order, but for their products
SameRecords(built, raw) ==
    /\ Len(built) = Len(raw)
    /\ \A j \in 1..Len(built) :
         /\ DOMAIN built[j].f = DOMAIN raw[j].f
         /\ \A key \in DOMAIN raw[j].f \ {"products"} : built[j].f[key] = raw[j].f[key]

ProductsOf(e) ==
    IF "products" \in DOMAIN e.f /\ e.f["products"].t = "list"
    THEN e.f["products"].l ELSE <<>>

CoveringsOf(x) ==
    IF x.t = "obj" /\ "coverings" \in DOMAIN x.f /\ x.f["coverings"].t = "list"
    THEN x.f["coverings"].l ELSE <<>>

\* C7: in a returned document every product of every entry has a name that
\* contains a canonical product name and every covering of every product
\* a name that contains a canonical covering name.
C7_DocumentNamesCanonical ==
    pc = "done" =>
        \A a \in 1..Len(normalized_data) :
            \A h \in 1..Len(ProductsOf(normalized_data[a])) :
                /\ SurvivingProduct(ProductsOf(normalized_data[a])[h])
                /\ \A g \in 1..Len(CoveringsOf(ProductsOf(normalized_data[a])[h])) :
                     SurvivingCovering(CoveringsOf(ProductsOf(normalized_data[a])[h])[g])

\* a coerced price is absent or a number; a coerced quantity absent or an
\* integer
ValidPrice(v) == v = Null \/ (v.t = "float" /\ v.kind = "finite")
ValidQuantity(v) == v = Null \/ v.t = "num"

CoercedValid(product) ==
    /\ "full_price" \in DOMAIN product.f => ValidPrice(product.f["full_price"])
    /\ "discounted_price" \in DOMAIN product.f => ValidPrice(product.f["discounted_price"])
    /\ "quantity" \in DOMAIN product.f => ValidQuantity(product.f["quantity"])

\* C8: in the records built, the full_price, discounted_price and quantity
\* of every product are each a valid number or absent.
C8_CoercedNumberOrAbsent ==
    \A c \in 1..Len(sent_items) :
        \A j \in 1..Len(sent_items[c]) :
            \A h \in 1..Len(sent_items[c][j].f["products"].l) :
                CoercedValid(sent_items[c][j].f["products"].l[h])

\* the client-normalization call failed: no credential, a provider error,
\* blocked content, or a text (the empty one too) that is not parseable
NormalizationFailed(c) ==
    /\ c.purpose = "normalize"
    /\ \/ c.out.kind \in {"none", "error", "blocked"}
       \/ c.out.kind = "text" /\ ~JsonLoads(c.out.text).ok

\* C9: a client-normalization call that failed is the last call of the
\* run, and the run has failed with the normalization error: no document
\* is returned and the chunk has contributed no records.
C9_NormalizationFailureIsFatal ==
    \A j \in 1..Len(calls) :
        NormalizationFailed(calls[j])
        => /\ j = Len(calls)
           /\ pc = "failed"
           /\ normalized_data = <<>>
           /\ error.status = 500
           /\ error.detail = "Error during client names normalization in chunk"
           /\ Len(chunk_items) = k - 1
           /\ Len(sent_items) = k - 1
           /\ chunks[k].pages = calls[j].pages

\* the second chunk's normalization response was unparseable after the
\* first chunk's records were normalized
C9_Witness ==
    /\ pc = "failed"
    /\ Len(chunks) = 2
    /\ k = 2
    /\ Len(chunk_items) = 1 /\ chunk_items[1] # <<>>
    /\ NormalizationFailed(calls[Len(calls)])
    /\ calls[Len(calls)].out.kind = "text"
    /\ error.cause = "JSONDecodeError"

\* C10: a chunk whose extraction response is valid JSON but no list is
\* never part of a run that returns a document.
C10_ShapeMismatchIsFatal ==
    pc = "done" => \A c \in 1..Len(chunks) : chunks[c].data.t = "list"

\* the error call_llm raises for a transport or provider failure
ProviderError == call_llm(TRUE, [kind |-> "error"]).err

\* the provider reported the prompt of an extraction call as blocked
BlockedExtraction(c) ==
    c.to = "llm" /\ c.purpose = "extract" /\ c.out.kind = "blocked"

\* C11: when the provider reports the content as blocked, the error that
\* call_llm raises (the one an extraction call lets through unchanged) is
\* not the generic "Error during Gemini API call" failure raised for a
\* provider error: its detail differs from the provider error's.
C11_BlockedIsDistinctError ==
    \A j \in 1..Len(calls) :
        BlockedExtraction(calls[j])
        => /\ pc = "failed"
           /\ error.detail # ProviderError.detail

\* the request is one the validation rejects: no LLM credential, a file
\* whose name does not end in ".pdf", or an empty or unknown company id
InvalidRequest ==
    \/ ~api_key
    \/ file.filename = <<>>
    \/ ~EndsWith(file.filename, <<".", "p", "d", "f">>)
    \/ companyId = ""
    \/ companyId \notin COMPANIES_INFO

\* the calls that reached a collaborator: the CRM, the PDF library, the
\* provider (call_llm without a credential returns before its request)
IsExternal(c) == c.out.kind # "none"
ExternalCalls == SelectSeq(calls, IsExternal)

\* C12: in the run of a request with a missing LLM credential, a non-PDF
\* file or an empty or unknown company id, no external call (CRM client
\* fetch, PDF text extraction, LLM call) is made.
C12_RejectedBeforeAnyCall ==
    InvalidRequest => ExternalCalls = <<>>

IsLlm(c) == c.to = "llm"
IsNormalize(c) == c.purpose = "normalize"
NormalizeCalls == SelectSeq(calls, IsNormalize)

\* the LLM call failed (no credential, a provider error, blocked content)
\* or returned a text that is empty or not parseable JSON
LlmFailed(c) ==
    \/ c.out.kind \in {"none", "error", "blocked"}
    \/ c.out.kind = "text" /\ (IsEmptyText(c.out.text) \/ ~JsonLoads(c.out.text).ok)

\* the calls are for page ranges that ascend strictly: none is repeated
Ascending(cs) ==
    \A a \in 1..Len(cs) : \A b \in (a + 1)..Len(cs) :
        RangeStart(cs[a].pages) < RangeStart(cs[b].pages)

\* C13: the extraction calls of a run are for strictly ascending page
\* ranges, so no chunk gets two; the client-normalization calls are for
\* strictly ascending ranges of stored chunks, so no chunk gets two; and an
\* LLM call that failed, or returned an empty or unparseable text, is the
\* last call of the run, which has ended in an error.
C13_SequentialNoRetries ==
    /\ Ascending(ExtractCalls)
    /\ Ascending(NormalizeCalls)
    /\ \A j \in 1..Len(NormalizeCalls) :
          \E c \in 1..Len(chunks) : chunks[c].pages = NormalizeCalls[j].pages
    /\ \A j \in 1..Len(calls) :
          (IsLlm(calls[j]) /\ LlmFailed(calls[j]))
          => (j = Len(calls) /\ pc = "failed" /\ error # NoError)

\* two chunks were extracted, the first normalized, and the provider
\* failed on the second chunk's client-normalization call
C13_Witness ==
    /\ pc = "failed"
    /\ Len(ExtractCalls) = 2
    /\ Len(NormalizeCalls) = 2
    /\ NormalizeCalls[1].out.kind = "text"
    /\ NormalizeCalls[2].out.kind = "error"
    /\ NormalizeCalls[1].pages = <<"1", "-", "1", "0">>
    /\ NormalizeCalls[2].pages = <<"1", "1", "-", "2", "0">>

====
